---------------------------- MODULE Spec2Model ----------------------------
(***************************************************************************)
(* Model of the mini data proxy: store_data / consume_data                 *)
(* (src/src/database.py), the DID document builder                         *)
(* (src/src/did_document.py) and the proxy re-encryption wrappers          *)
(* (src/src/encryption.py).                                                *)
(*                                                                         *)
(* Python values are records carrying their type, so that isinstance and   *)
(* truthiness tests can be computed as the code computes them.  Byte       *)
(* strings are sequences of 0..255; hex strings are sequences of           *)
(* characters, a character being a number: 0..15 the lower-case digits     *)
(* 0-9a-f, 16..21 the upper-case digits A-F, 22 a character that is not a  *)
(* hex digit.                                                              *)
(*                                                                         *)
(* The umbral primitives called by encryption.py are modelled by the       *)
(* scheme they implement (ElGamal-style encapsulation, Shamir-shared       *)
(* re-encryption key, authenticated symmetric encryption), over the        *)
(* additive group of integers modulo the prime Q instead of secp256k1.     *)
(***************************************************************************)
EXTENDS Integers, Sequences, FiniteSets, TLC

(***************************************************************************)
(* Bounds of the model.                                                    *)
(***************************************************************************)
\* Ephemeral scalars drawn by encrypt are 1..MaxRand.
MaxRand == 2
\* Payloads are the byte strings 72, 73, ... of length <= MaxLen.
MaxLen == 2
\* datetime.now() returns one of 1..MaxTime.
MaxTime == 1
\* Concurrent callers make at most MaxStores store_data calls.
MaxStores == 2

(***************************************************************************)
(* Python values.                                                          *)
(***************************************************************************)
None == [type |-> "NoneType"]

\* A truthy object that is neither a key nor bytes (a str passed by mistake).
BadType == [type |-> "str"]

Bytes(seq) == [type |-> "bytes", val |-> seq]

\* Python truthiness of an argument: None and empty bytes are falsy.
Truthy(x) ==
    CASE x.type = "NoneType" -> FALSE
      [] x.type = "bytes" -> x.val # <<>>
      [] OTHER -> TRUE

\* Truthiness of a str: the empty string is falsy.
StrTruthy(s) == s # ""

(***************************************************************************)
(* bytes.hex() and bytes.fromhex().                                        *)
(***************************************************************************)
NonHexChar == 22

HexChars == 0..22

IsHexDigit(c) == c \in 0..21

\* The value of a hex digit; upper-case digits have the value of the
\* lower-case ones.
HexVal(c) == IF c <= 15 THEN c ELSE c - 6

\* (mutant) hex() writing the low nibble of each byte first.
RECURSIVE ToHexLowFirst(_)
ToHexLowFirst(b) ==
    IF b = <<>> THEN <<>>
    ELSE <<Head(b) % 16, Head(b) \div 16>> \o ToHexLowFirst(Tail(b))

\* bytes.hex(): two lower-case digits per byte, high nibble first.
RECURSIVE ToHex(_)
ToHex(b) ==
    IF b = <<>> THEN <<>>
    ELSE <<Head(b) \div 16, Head(b) % 16>> \o ToHex(Tail(b))

\* bytes.fromhex() raises ValueError on an odd number of digits or on a
\* character that is not a hex digit.
FromHexOk(h) ==
    /\ Len(h) % 2 = 0
    /\ \A i \in 1..Len(h) : IsHexDigit(h[i])

FromHex(h) ==
    [i \in 1..(Len(h) \div 2) |-> 16 * HexVal(h[2 * i - 1]) + HexVal(h[2 * i])]

(***************************************************************************)
(* The group of the primitives: scalars and points are integers modulo Q,  *)
(* a point is a scalar times the generator.                                *)
(***************************************************************************)
Q == 251

Generator == 2

Add(x, y) == (x + y) % Q

Sub(x, y) == (x + Q - (y % Q)) % Q

Mul(x, y) == (x * y) % Q

\* Multiplicative inverse modulo the prime Q (x not a multiple of Q).
InvTable == [x \in 1..(Q - 1) |-> CHOOSE y \in 1..(Q - 1) : Mul(x, y) = 1]

Inv(x) == InvTable[x]

\* SecretKey and SecretKey.public_key().
SecretKey(n) == [type |-> "SecretKey", scalar |-> n]

\* (mutant) a public key that is the secret scalar itself.
PublicKeyOfLeaking(sk) == [type |-> "PublicKey", point |-> sk.scalar]

PublicKeyOf(sk) == [type |-> "PublicKey", point |-> Mul(sk.scalar, Generator)]

\* Signer(sk).
Signer(sk) == [type |-> "Signer", scalar |-> sk.scalar]

\* The hash binding the two points of a capsule.
HashPoints(e, v) == (e + 2 * v + 1) % Q

\* Serialization of the library objects: bytes(capsule), bytes(kfrag),
\* bytes(public_key).
CapsuleBytes(c) == <<c.e, c.v, c.s>>

KFragBytes(k) == <<k.id, k.key>>

PublicKeyBytes(pk) == <<pk.point>>

\* SecretKey.to_secret_bytes(): the scalar itself.
SecretKeyBytes(sk) == <<sk.scalar>>

\* Capsule self-verification, run by Capsule.from_bytes.
CapsuleVerifies(c) ==
    Mul(c.s, Generator) = Add(c.v, Mul(HashPoints(c.e, c.v), c.e))

\* Capsule.from_bytes raises ValueError unless the bytes have the size of
\* a capsule, each field is a group element and the capsule verifies.
CapsuleFromBytesOk(b) ==
    /\ Len(b) = 3
    /\ \A i \in 1..3 : b[i] < Q
    /\ CapsuleVerifies([e |-> b[1], v |-> b[2], s |-> b[3]])

CapsuleFromBytes(b) ==
    [type |-> "Capsule", e |-> b[1], v |-> b[2], s |-> b[3]]

\* VerifiedKeyFrag.from_verified_bytes raises ValueError unless the bytes
\* have the size of a key fragment and hold a fragment id and a scalar.
KFragFromBytesOk(b) ==
    /\ Len(b) = 2
    /\ b[1] \in 1..(Q - 1)
    /\ b[2] < Q

KFragFromBytes(b) ==
    [type |-> "VerifiedKeyFrag", id |-> b[1], key |-> b[2]]

RECURSIVE SumSeq(_)
SumSeq(s) == IF s = <<>> THEN 0 ELSE Head(s) + SumSeq(Tail(s))

\* The authentication tag of the symmetric encryption: it binds the key,
\* the encrypted body and the authenticated data (the capsule bytes).
Tag(key, body, aad) ==
    <<(3 * key + 1) % Q, (key + SumSeq(body) + SumSeq(aad)) % 256>>

SymEncrypt(key, plain, aad) ==
    LET body == [i \in 1..Len(plain) |-> (plain[i] + key) % 256]
    IN  body \o Tag(key, body, aad)

\* A ciphertext shorter than a tag, or whose tag does not match, is
\* rejected with ValueError.
SymDecryptOk(key, ct, aad) ==
    /\ Len(ct) >= 2
    /\ LET body == SubSeq(ct, 1, Len(ct) - 2)
       IN  SubSeq(ct, Len(ct) - 1, Len(ct)) = Tag(key, body, aad)

SymDecrypt(key, ct) ==
    [i \in 1..(Len(ct) - 2) |-> (ct[i] + 256 - key) % 256]

(***************************************************************************)
(* The results of a call: a value, or the exception raised.                *)
(***************************************************************************)
Ok(v) == [ok |-> TRUE, exc |-> "none", msg |-> "", val |-> v]

RaiseMsg(e, m) == [ok |-> FALSE, exc |-> e, msg |-> m, val |-> None]

Raise(e) == RaiseMsg(e, "")

(***************************************************************************)
(* src/src/encryption.py                                                   *)
(***************************************************************************)
\* encrypt_data(data, public_key): umbral's encrypt draws the two
\* ephemeral scalars of the capsule (here rnd and rnd + 1), derives the
\* symmetric key from the public key and returns (ciphertext, capsule).
\* A key of the wrong type has none of the attributes the library reads
\* (AttributeError); a payload that is not bytes is refused with TypeError.
encrypt_data(data, public_key, rnd) ==
    IF public_key.type # "PublicKey" THEN Raise("AttributeError")
    ELSE IF data.type # "bytes" THEN Raise("TypeError")
    ELSE
        LET r == rnd
            u == rnd + 1
            e == Mul(r, Generator)
            v == Mul(u, Generator)
            s == Add(u, Mul(r, HashPoints(e, v)))
            capsule == [type |-> "Capsule", e |-> e, v |-> v, s |-> s]
            key == Mul(Add(r, u), public_key.point)
        IN  Ok([ciphertext |->
                    Bytes(SymEncrypt(key, data.val, CapsuleBytes(capsule))),
                capsule |-> capsule])

RECURSIVE Pow(_, _)
Pow(x, n) == IF n = 0 THEN 1 ELSE Mul(x, Pow(x, n - 1))

\* The sharing polynomial of generate_kfrags: its value at 0 is the
\* re-encryption key, its threshold - 1 other coefficients are random.
RECURSIVE PolyEval(_, _, _, _)
PolyEval(rk, rnd, threshold, x) ==
    IF threshold <= 1 THEN rk
    ELSE Add(PolyEval(rk, rnd, threshold - 1, x),
             Mul(rnd + threshold, Pow(x, threshold - 1)))

\* create_kfrags(delegating_sk, receiving_pk, signer, threshold, shares):
\* the signer passed in is replaced by Signer(delegating_sk); umbral's
\* generate_kfrags returns `shares` verified fragments of the key that
\* re-encrypts from the delegating key to the receiving key, any
\* `threshold` of which rebuild it.  It raises ValueError on a policy
\* without 1 <= threshold <= shares, AttributeError on a mistyped key.
create_kfrags(delegating_sk, receiving_pk, signer, threshold, shares, rnd) ==
    IF delegating_sk.type # "SecretKey" \/ receiving_pk.type # "PublicKey"
    THEN Raise("AttributeError")
    ELSE IF threshold < 1 \/ threshold > shares
    THEN Raise("ValueError")
    ELSE
        LET rk == Mul(delegating_sk.scalar, Inv(receiving_pk.point))
        IN  Ok([i \in 1..shares |->
                  [type |-> "VerifiedKeyFrag", id |-> i,
                   key |-> PolyEval(rk, rnd, threshold, i)]])

\* reencrypt_data(capsule, verified_kfrag): the capsule fragment made of
\* the capsule's two points multiplied by the fragment's key share.
reencrypt_data(capsule, verified_kfrag) ==
    IF capsule.type # "Capsule" \/ verified_kfrag.type # "VerifiedKeyFrag"
    THEN Raise("AttributeError")
    ELSE Ok([type |-> "VerifiedCapsuleFrag", id |-> verified_kfrag.id,
             e1 |-> Mul(verified_kfrag.key, capsule.e),
             v1 |-> Mul(verified_kfrag.key, capsule.v)])

\* The Lagrange coefficient at 0 of fragment i among the fragments cfrags.
RECURSIVE LagrangeProd(_, _, _)
LagrangeProd(cfrags, i, j) ==
    IF j > Len(cfrags) THEN 1
    ELSE IF j = i THEN LagrangeProd(cfrags, i, j + 1)
    ELSE Mul(Mul(cfrags[j].id, Inv(Sub(cfrags[j].id, cfrags[i].id))),
             LagrangeProd(cfrags, i, j + 1))

RECURSIVE CombineE(_, _)
CombineE(cfrags, i) ==
    IF i > Len(cfrags) THEN 0
    ELSE Add(Mul(LagrangeProd(cfrags, i, 1), cfrags[i].e1),
             CombineE(cfrags, i + 1))

RECURSIVE CombineV(_, _)
CombineV(cfrags, i) ==
    IF i > Len(cfrags) THEN 0
    ELSE Add(Mul(LagrangeProd(cfrags, i, 1), cfrags[i].v1),
             CombineV(cfrags, i + 1))

\* decrypt_reencrypted_data(receiving_sk, delegating_pk, capsule,
\* verified_cfrags, ciphertext): umbral's decrypt_reencrypted combines the
\* capsule fragments, validates the combination against the capsule and
\* the delegating public key, derives the symmetric key with the receiving
\* secret key and decrypts.  An empty or repeated fragment list, a failed
\* validation and a failed authentication all raise ValueError.
decrypt_reencrypted_data(receiving_sk, delegating_pk, capsule, verified_cfrags, ciphertext) ==
    IF \/ receiving_sk.type # "SecretKey"
       \/ delegating_pk.type # "PublicKey"
       \/ capsule.type # "Capsule"
    THEN Raise("AttributeError")
    ELSE IF ciphertext.type # "bytes" THEN Raise("TypeError")
    ELSE IF \/ verified_cfrags = <<>>
            \/ \E i, j \in 1..Len(verified_cfrags) :
                  i # j /\ verified_cfrags[i].id = verified_cfrags[j].id
    THEN Raise("ValueError")
    ELSE
        LET d == PublicKeyOf(receiving_sk).point
            ePrime == CombineE(verified_cfrags, 1)
            vPrime == CombineV(verified_cfrags, 1)
            h == HashPoints(capsule.e, capsule.v)
            key == Mul(d, Add(ePrime, vPrime))
        IN  IF Mul(capsule.s, delegating_pk.point)
                 # Mul(d, Add(Mul(h, ePrime), vPrime))
            THEN Raise("ValueError")
            ELSE IF ~SymDecryptOk(key, ciphertext.val, CapsuleBytes(capsule))
            THEN Raise("ValueError")
            ELSE Ok(Bytes(SymDecrypt(key, ciphertext.val)))

(***************************************************************************)
(* src/src/config.py                                                       *)
(***************************************************************************)
PRE_THRESHOLD == 2

PRE_SHARES == 3

DID_CONTEXT_URL == "https://w3id.org/did/v1"

DID_METHOD == "op"

(***************************************************************************)
(* src/src/did_document.py                                                 *)
(***************************************************************************)
\* (mutant) _validate_inputs checking the capsule before the ciphertext.
_validate_inputs_swapped(data_asset_id, access_url, owner_public_key, ciphertext, capsule, kfrags) ==
    IF ~StrTruthy(data_asset_id)
    THEN RaiseMsg("ValueError", "Data asset ID is missing.")
    ELSE IF ~StrTruthy(access_url)
    THEN RaiseMsg("ValueError", "Access URL is missing.")
    ELSE IF owner_public_key.type # "PublicKey"
    THEN RaiseMsg("ValueError", "Invalid owner public key.")
    ELSE IF capsule.type # "Capsule"
    THEN RaiseMsg("ValueError", "Invalid capsule.")
    ELSE IF ciphertext.type # "bytes" \/ ~Truthy(ciphertext)
    THEN RaiseMsg("ValueError", "Invalid ciphertext.")
    ELSE IF \/ kfrags = <<>>
            \/ ~(\A i \in 1..Len(kfrags) : kfrags[i].type = "VerifiedKeyFrag")
    THEN RaiseMsg("InvalidKeyFrag", "Invalid key fragments.")
    ELSE Ok(None)

\* _validate_inputs: the first check that fails raises; "ok" when none
\* does.  kfrags is a list (a sequence) or None.
_validate_inputs(data_asset_id, access_url, owner_public_key, ciphertext, capsule, kfrags) ==
    IF ~StrTruthy(data_asset_id)
    THEN RaiseMsg("ValueError", "Data asset ID is missing.")
    ELSE IF ~StrTruthy(access_url)
    THEN RaiseMsg("ValueError", "Access URL is missing.")
    ELSE IF owner_public_key.type # "PublicKey"
    THEN RaiseMsg("ValueError", "Invalid owner public key.")
    ELSE IF ciphertext.type # "bytes" \/ ~Truthy(ciphertext)
    THEN RaiseMsg("ValueError", "Invalid ciphertext.")
    ELSE IF capsule.type # "Capsule"
    THEN RaiseMsg("ValueError", "Invalid capsule.")
    ELSE IF \/ kfrags = <<>>
            \/ ~(\A i \in 1..Len(kfrags) : kfrags[i].type = "VerifiedKeyFrag")
    THEN RaiseMsg("InvalidKeyFrag", "Invalid key fragments.")
    ELSE Ok(None)

\* (mutant) create_did_document building the id from the method alone.
create_did_document_noid(data_asset_id, access_url, owner_public_key, ciphertext, capsule, kfrags, now) ==
    LET checked == _validate_inputs(data_asset_id, access_url,
                                    owner_public_key, ciphertext,
                                    capsule, kfrags)
    IN  IF ~checked.ok THEN checked
        ELSE Ok([context |-> DID_CONTEXT_URL,
                 id |-> "did:" \o DID_METHOD \o ":",
                 created |-> now,
                 access |-> <<[type |-> "rest",
                               accessUrl |-> access_url,
                               data |-> ToHex(ciphertext.val),
                               capsule |-> ToHex(CapsuleBytes(capsule)),
                               kfrags |-> [i \in 1..Len(kfrags) |->
                                             ToHex(KFragBytes(kfrags[i]))]]>>,
                 encryption |-> [type |-> "PyUmbral",
                                 publicKey |->
                                   ToHex(PublicKeyBytes(owner_public_key))]])

\* (mutant) create_did_document leaving the kfrags list of the record
\* empty.
create_did_document_nokfrags(data_asset_id, access_url, owner_public_key, ciphertext, capsule, kfrags, now) ==
    LET checked == _validate_inputs(data_asset_id, access_url,
                                    owner_public_key, ciphertext,
                                    capsule, kfrags)
    IN  IF ~checked.ok THEN checked
        ELSE Ok([context |-> DID_CONTEXT_URL,
                 id |-> "did:" \o DID_METHOD \o ":" \o data_asset_id,
                 created |-> now,
                 access |-> <<[type |-> "rest",
                               accessUrl |-> access_url,
                               data |-> ToHex(ciphertext.val),
                               capsule |-> ToHex(CapsuleBytes(capsule)),
                               kfrags |-> <<>>]>>,
                 encryption |-> [type |-> "PyUmbral",
                                 publicKey |->
                                   ToHex(PublicKeyBytes(owner_public_key))]])

\* create_did_document: validates, then builds the document with the
\* ciphertext, the capsule, the key fragments and the owner's public key
\* hex-encoded; `now` is datetime.now().  ValueError and InvalidKeyFrag
\* are re-raised as they are.
create_did_document(data_asset_id, access_url, owner_public_key, ciphertext, capsule, kfrags, now) ==
    LET checked == _validate_inputs(data_asset_id, access_url,
                                    owner_public_key, ciphertext,
                                    capsule, kfrags)
    IN  IF ~checked.ok THEN checked
        ELSE Ok([context |-> DID_CONTEXT_URL,
                 id |-> "did:" \o DID_METHOD \o ":" \o data_asset_id,
                 created |-> now,
                 access |-> <<[type |-> "rest",
                               accessUrl |-> access_url,
                               data |-> ToHex(ciphertext.val),
                               capsule |-> ToHex(CapsuleBytes(capsule)),
                               kfrags |-> [i \in 1..Len(kfrags) |->
                                             ToHex(KFragBytes(kfrags[i]))]]>>,
                 encryption |-> [type |-> "PyUmbral",
                                 publicKey |->
                                   ToHex(PublicKeyBytes(owner_public_key))]])

(***************************************************************************)
(* src/src/database.py                                                     *)
(***************************************************************************)
\* database.get("collection", {})
Collection(database) ==
    IF "collection" \in DOMAIN database THEN database["collection"] ELSE <<>>

\* (mutant) an insertion that keeps the record an asset id already has:
\* database.setdefault("collection", {}).setdefault(asset_id, document)
InsertIfAbsent(database, asset_id, document) ==
    LET collection == Collection(database)
    IN  [k \in {"collection"} |->
            [a \in (DOMAIN collection) \cup {asset_id} |->
                IF a \in DOMAIN collection THEN collection[a] ELSE document]]

\* database.setdefault("collection", {})[asset_id] = document
Insert(database, asset_id, document) ==
    LET collection == Collection(database)
    IN  [k \in {"collection"} |->
            [a \in (DOMAIN collection) \cup {asset_id} |->
                IF a = asset_id THEN document ELSE collection[a]]]

\* The body of store_data's try block: the first step that raises ends
\* it.  calls lists the provider and builder calls made.
StorePipeline(asset_id, data, access_url, owner_key, owner_signer, consumer_key, rnd, now) ==
    LET owner_pk == IF owner_key.type = "SecretKey"
                    THEN Ok(PublicKeyOf(owner_key))
                    ELSE Raise("AttributeError")
        enc == encrypt_data(data, owner_pk.val, rnd)
        kfrags == create_kfrags(owner_key, consumer_key, owner_signer,
                                1, 1, rnd)
        did_doc == create_did_document(asset_id, access_url, owner_pk.val,
                                       enc.val.ciphertext, enc.val.capsule,
                                       kfrags.val, now)
    IN  IF ~owner_pk.ok THEN [res |-> owner_pk, calls |-> <<>>]
        ELSE IF ~enc.ok THEN [res |-> enc, calls |-> <<"encrypt_data">>]
        ELSE IF ~kfrags.ok
        THEN [res |-> kfrags, calls |-> <<"encrypt_data", "create_kfrags">>]
        ELSE [res |-> did_doc,
              calls |-> <<"encrypt_data", "create_kfrags",
                          "create_did_document">>]

\* (mutant) store_data inserting a placeholder record once the payload
\* is encrypted, and leaving it there when a later step raises.
store_data_partial(database, asset_id, data, access_url, owner_key, owner_signer, consumer_key, rnd, now) ==
    IF ~(/\ StrTruthy(asset_id) /\ Truthy(data) /\ StrTruthy(access_url)
         /\ Truthy(owner_key) /\ Truthy(owner_signer) /\ Truthy(consumer_key))
    THEN [database |-> database, exc |-> "ValueError", cause |-> "none",
          calls |-> <<>>]
    ELSE
        LET p == StorePipeline(asset_id, data, access_url, owner_key,
                               owner_signer, consumer_key, rnd, now)
            placeholder == Insert(database, asset_id, [did_document |-> None])
        IN  IF p.res.ok
            THEN [database |->
                      Insert(database, asset_id, [did_document |-> p.res.val]),
                  exc |-> "none", cause |-> "none", calls |-> p.calls]
            ELSE [database |-> IF p.calls = <<>> THEN database ELSE placeholder,
                  exc |-> IF p.res.exc = "ValueError"
                          THEN "DataStorageError" ELSE p.res.exc,
                  cause |-> IF p.res.exc = "ValueError"
                            THEN "ValueError" ELSE "none",
                  calls |-> p.calls]

\* (mutant) store_data with owner_signer left out of the argument check
\* (create_kfrags replaces the signer, so the call then goes through).
store_data_signer_unchecked(database, asset_id, data, access_url, owner_key, owner_signer, consumer_key, rnd, now) ==
    IF ~(/\ StrTruthy(asset_id) /\ Truthy(data) /\ StrTruthy(access_url)
         /\ Truthy(owner_key) /\ Truthy(consumer_key))
    THEN [database |-> database, exc |-> "ValueError", cause |-> "none",
          calls |-> <<>>]
    ELSE
        LET p == StorePipeline(asset_id, data, access_url, owner_key,
                               owner_signer, consumer_key, rnd, now)
        IN  IF p.res.ok
            THEN [database |->
                      Insert(database, asset_id, [did_document |-> p.res.val]),
                  exc |-> "none", cause |-> "none", calls |-> p.calls]
            ELSE IF p.res.exc = "ValueError"
            THEN [database |-> database, exc |-> "DataStorageError",
                  cause |-> "ValueError", calls |-> p.calls]
            ELSE [database |-> database, exc |-> p.res.exc,
                  cause |-> "none", calls |-> p.calls]

\* store_data: the result is the database after the call, the exception
\* that reaches the caller ("none" on return), the exception it was raised
\* from, and the calls made.
store_data(database, asset_id, data, access_url, owner_key, owner_signer, consumer_key, rnd, now) ==
    IF ~(/\ StrTruthy(asset_id) /\ Truthy(data) /\ StrTruthy(access_url)
         /\ Truthy(owner_key) /\ Truthy(owner_signer) /\ Truthy(consumer_key))
    THEN [database |-> database, exc |-> "ValueError", cause |-> "none",
          calls |-> <<>>]
    ELSE
        LET p == StorePipeline(asset_id, data, access_url, owner_key,
                               owner_signer, consumer_key, rnd, now)
        IN  IF p.res.ok
            THEN [database |->
                      Insert(database, asset_id, [did_document |-> p.res.val]),
                  exc |-> "none", cause |-> "none", calls |-> p.calls]
            ELSE IF p.res.exc = "ValueError"
            THEN [database |-> database, exc |-> "DataStorageError",
                  cause |-> "ValueError", calls |-> p.calls]
            ELSE [database |-> database, exc |-> p.res.exc,
                  cause |-> "none", calls |-> p.calls]

\* The list comprehension over access["kfrags"]: each entry is decoded
\* from hex and parsed; the first entry that fails raises ValueError.
KFragParses(hx) == FromHexOk(hx) /\ KFragFromBytesOk(FromHex(hx))

RECURSIVE ParseCalls(_, _)
ParseCalls(hexes, i) ==
    IF i > Len(hexes) THEN <<>>
    ELSE IF ~FromHexOk(hexes[i]) THEN <<"fromhex">>
    ELSE IF ~KFragFromBytesOk(FromHex(hexes[i]))
    THEN <<"fromhex", "from_verified_bytes">>
    ELSE <<"fromhex", "from_verified_bytes">> \o ParseCalls(hexes, i + 1)

\* The body of consume_data's try block, from the record found.
ConsumePipeline(access, consumer_secret_key, delegating_public_key) ==
    LET ciphertext == Bytes(FromHex(access.data))
        capsule == CapsuleFromBytes(FromHex(access.capsule))
        verified_kfrags == [i \in 1..Len(access.kfrags) |->
                               KFragFromBytes(FromHex(access.kfrags[i]))]
        reenc == [i \in 1..Len(verified_kfrags) |->
                     reencrypt_data(capsule, verified_kfrags[i])]
        cfrags == [i \in 1..Len(reenc) |-> reenc[i].val]
        c1 == <<"fromhex">>
        c2 == c1 \o <<"fromhex">>
        c3 == c2 \o <<"Capsule.from_bytes">>
        c4 == c3 \o ParseCalls(access.kfrags, 1)
        c5 == c4 \o [i \in 1..Len(verified_kfrags) |-> "reencrypt_data"]
        c6 == c5 \o <<"decrypt_reencrypted_data">>
        decrypted == decrypt_reencrypted_data(consumer_secret_key,
                                              delegating_public_key,
                                              capsule, cfrags, ciphertext)
    IN  IF ~FromHexOk(access.data)
        THEN [res |-> Raise("ValueError"), calls |-> c1, ncfrags |-> 0]
        ELSE IF ~FromHexOk(access.capsule)
        THEN [res |-> Raise("ValueError"), calls |-> c2, ncfrags |-> 0]
        ELSE IF ~CapsuleFromBytesOk(FromHex(access.capsule))
        THEN [res |-> Raise("ValueError"), calls |-> c3, ncfrags |-> 0]
        ELSE IF \E i \in 1..Len(access.kfrags) : ~KFragParses(access.kfrags[i])
        THEN [res |-> Raise("ValueError"), calls |-> c4, ncfrags |-> 0]
        ELSE IF cfrags = <<>>
        THEN [res |-> Raise("PermissionError"), calls |-> c5, ncfrags |-> 0]
        ELSE IF ~decrypted.ok
        THEN [res |-> decrypted, calls |-> c6, ncfrags |-> Len(cfrags)]
        ELSE [res |-> Ok([plaintext |-> decrypted.val,
                          accessUrl |-> access.accessUrl]),
              calls |-> c6, ncfrags |-> Len(cfrags)]

\* (mutant) an except clause that catches every exception.
ConsumeExceptAll(exc) == "DecryptionError"

\* (mutant) an except clause that catches TypeError only.
ConsumeExceptTypeOnly(exc) ==
    IF exc = "TypeError" THEN "DecryptionError" ELSE exc

\* (mutant) an except clause that also catches OSError, the class of
\* PermissionError.
ConsumeExceptOSError(exc) ==
    IF exc \in {"ValueError", "TypeError", "PermissionError"}
    THEN "DecryptionError" ELSE exc

\* consume_data's except clause: ValueError and TypeError are re-raised as
\* DecryptionError, every other exception reaches the caller as it is.
ConsumeExcept(exc) ==
    IF exc \in {"ValueError", "TypeError"} THEN "DecryptionError" ELSE exc

\* (mutant) consume_data deleting the record it has decrypted
\* (collection.pop(data_asset_id) before the return).
consume_data_once(database, data_asset_id, consumer_secret_key, delegating_public_key) ==
    LET collection == Collection(database)
    IN  IF data_asset_id \notin DOMAIN collection
        THEN [database |-> database,
              exc |-> ConsumeExcept("DataStorageError"), cause |-> "none",
              plaintext |-> None, accessUrl |-> "", calls |-> <<>>,
              ncfrags |-> 0]
        ELSE
            LET did_doc == collection[data_asset_id].did_document
                p == ConsumePipeline(did_doc.access[1], consumer_secret_key,
                                     delegating_public_key)
            IN  IF p.res.ok
                THEN [database |->
                          [k \in {"collection"} |->
                              [a \in (DOMAIN collection) \ {data_asset_id}
                                  |-> collection[a]]],
                      exc |-> "none", cause |-> "none",
                      plaintext |-> p.res.val.plaintext,
                      accessUrl |-> p.res.val.accessUrl,
                      calls |-> p.calls, ncfrags |-> p.ncfrags]
                ELSE [database |-> database,
                      exc |-> ConsumeExcept(p.res.exc),
                      cause |-> IF ConsumeExcept(p.res.exc) = p.res.exc
                                THEN "none" ELSE p.res.exc,
                      plaintext |-> None, accessUrl |-> "",
                      calls |-> p.calls, ncfrags |-> p.ncfrags]

\* consume_data: the database after the call (no statement of the function
\* writes to it), the exception that reaches the caller ("none" on
\* return), the exception it was raised from, the (plaintext, access URL)
\* returned, the calls made and the number of capsule fragments produced.
consume_data(database, data_asset_id, consumer_secret_key, delegating_public_key) ==
    LET collection == Collection(database)
    IN  IF data_asset_id \notin DOMAIN collection
        THEN [database |-> database,
              exc |-> ConsumeExcept("DataStorageError"), cause |-> "none",
              plaintext |-> None, accessUrl |-> "", calls |-> <<>>,
              ncfrags |-> 0]
        ELSE
            LET did_doc == collection[data_asset_id].did_document
                p == ConsumePipeline(did_doc.access[1], consumer_secret_key,
                                     delegating_public_key)
            IN  IF p.res.ok
                THEN [database |-> database,
                      exc |-> "none", cause |-> "none",
                      plaintext |-> p.res.val.plaintext,
                      accessUrl |-> p.res.val.accessUrl,
                      calls |-> p.calls, ncfrags |-> p.ncfrags]
                ELSE [database |-> database,
                      exc |-> ConsumeExcept(p.res.exc),
                      cause |-> IF ConsumeExcept(p.res.exc) = p.res.exc
                                THEN "none" ELSE p.res.exc,
                      plaintext |-> None, accessUrl |-> "",
                      calls |-> p.calls, ncfrags |-> p.ncfrags]

(***************************************************************************)
(* The state: the database dict of main.py, the result of the last call    *)
(* and, for the builder run on its own, its arguments and result.          *)
(* written is history: for each asset id, the arguments and the record of  *)
(* the last store_data call that returned, the policy the command was run  *)
(* with, and whether that call replaced a record holding another payload.  *)
(* conc is the state of callers running concurrently: the did_doc objects  *)
(* made, the object each asset id refers to, and each caller's position    *)
(* and local variables.                                                    *)
(***************************************************************************)
VARIABLES database, last, written, build, conc

vars == <<database, last, written, build, conc>>

\* The keys of the demo: SecretKey.random() for the owner and for the
\* consumer; a second consumer and a second owner that take no part in the
\* delegation.
OwnerSk == SecretKey(101)

ConsumerSk == SecretKey(103)

OtherConsumerSk == SecretKey(107)

OtherOwnerSk == SecretKey(109)

\* The asset id stored ("" is the missing one) and the ids consumed.
StoredIds == {"", "a1"}

ConsumedIds == {"a1", "a2"}

Urls == {"", "u1", "u2"}

Payloads == {Bytes([i \in 1..n |-> 71 + i]) : n \in 0..MaxLen}

\* The policies the demo command can be run with (--threshold, --shares).
Policies == {[threshold |-> 1, shares |-> 1],
             [threshold |-> PRE_THRESHOLD, shares |-> PRE_SHARES]}

\* The calls of store_data made: every call with well-formed arguments,
\* and every combination of missing or mistyped arguments (the random
\* draws play no part in a call that fails).
ValidCalls ==
    [asset_id : StoredIds \ {""}, data : Payloads \ {Bytes(<<>>)},
     access_url : Urls \ {""}, owner_key : {OwnerSk},
     owner_signer : {Signer(OwnerSk)},
     consumer_key : {PublicKeyOf(ConsumerSk), PublicKeyOf(OtherConsumerSk)},
     rnd : 1..MaxRand, now : 1..MaxTime]

FaultyCalls ==
    [asset_id : StoredIds, data : {Bytes(<<>>), Bytes(<<72>>), BadType},
     access_url : {"", "u1"}, owner_key : {OwnerSk, None, BadType},
     owner_signer : {Signer(OwnerSk), None},
     consumer_key : {PublicKeyOf(ConsumerSk), None, BadType},
     rnd : {1}, now : {1}]

StoreCalls == ValidCalls \cup FaultyCalls

NoCall == [op |-> "none", asset |-> "", exc |-> "none", cause |-> "none",
           calls |-> <<>>, ncfrags |-> 0, plaintext |-> None,
           accessUrl |-> "", policy |-> None, sk |-> None, pk |-> None,
           missing |-> "none"]

NoBuild == [args |-> None, res |-> None]

\* The callers that run store_data concurrently.
Storers == {1, 2}

NoConc ==
    [objs |-> <<>>, ref |-> <<>>, built |-> {}, started |-> 0,
     storer |-> [t \in Storers |-> [pc |-> "idle", doc |-> None]],
     consumer |-> [pc |-> "idle", held |-> 0, seen |-> <<>>]]

\* demo(): database = {"collection": {}}
Init ==
    /\ database = [k \in {"collection"} |-> <<>>]
    /\ last = NoCall
    /\ written = <<>>
    /\ build = NoBuild
    /\ conc = NoConc

\* The first of the required arguments of a store_data call that is None
\* or empty, in the order of the parameters; "none" when all are given.
FirstMissing(c) ==
    CASE ~StrTruthy(c.asset_id) -> "asset_id"
      [] ~Truthy(c.data) -> "data"
      [] ~StrTruthy(c.access_url) -> "access_url"
      [] ~Truthy(c.owner_key) -> "owner_key"
      [] ~Truthy(c.owner_signer) -> "owner_signer"
      [] ~Truthy(c.consumer_key) -> "consumer_key"
      [] OTHER -> "none"

\* What a store_data call with arguments c and result r leaves in last
\* and in written.
StoreLast(c, policy, r) ==
    [NoCall EXCEPT !.op = "store", !.asset = c.asset_id, !.exc = r.exc,
                   !.cause = r.cause, !.calls = r.calls, !.policy = policy,
                   !.missing = FirstMissing(c)]

StoreWritten(before, c, policy, r) ==
    IF r.exc # "none" THEN before
    ELSE [a \in (DOMAIN before) \cup {c.asset_id} |->
            IF a # c.asset_id THEN before[a]
            ELSE [data |-> c.data, accessUrl |-> c.access_url,
                  consumer |-> c.consumer_key, policy |-> policy,
                  doc |-> Collection(r.database)[c.asset_id].did_document,
                  replaced |-> /\ c.asset_id \in DOMAIN before
                               /\ before[c.asset_id].data # c.data]]

\* A call of store_data as demo() makes it: the policy of the command line
\* is not among the arguments passed.
Store ==
    \E c \in StoreCalls, policy \in Policies :
        \E r \in {store_data(database, c.asset_id, c.data, c.access_url,
                              c.owner_key, c.owner_signer, c.consumer_key,
                              c.rnd, c.now)} :
            /\ database' = r.database
            /\ last' = StoreLast(c, policy, r)
            /\ written' = StoreWritten(written, c, policy, r)
            /\ UNCHANGED <<build, conc>>

\* A call of consume_data with keys drawn from secret_keys and
\* public_keys.
ConsumeWith(secret_keys, public_keys) ==
    \E data_asset_id \in ConsumedIds,
       consumer_secret_key \in secret_keys,
       delegating_public_key \in public_keys :
        \E r \in {consume_data(database, data_asset_id,
                                consumer_secret_key, delegating_public_key)} :
            /\ database' = r.database
            /\ last' = [NoCall EXCEPT !.op = "consume",
                                      !.asset = data_asset_id,
                                      !.exc = r.exc, !.cause = r.cause,
                                      !.calls = r.calls,
                                      !.ncfrags = r.ncfrags,
                                      !.plaintext = r.plaintext,
                                      !.accessUrl = r.accessUrl,
                                      !.sk = consumer_secret_key,
                                      !.pk = delegating_public_key]
            /\ UNCHANGED <<written, build, conc>>

\* A call of consume_data as demo() makes it, with the secret key of a
\* consumer and the public key of an owner.
Consume ==
    ConsumeWith({ConsumerSk, OtherConsumerSk},
                {PublicKeyOf(OwnerSk), PublicKeyOf(OtherOwnerSk)})

Next == Store \/ Consume

Spec == Init /\ [][Next]_vars

(***************************************************************************)
(* Corruption of a stored record: the database is a plain dict, and one    *)
(* character of the hex text of the ciphertext or of the capsule of a      *)
(* record is replaced by another character.                                *)
(***************************************************************************)
\* The state after demo() stored one asset (the access URL and the
\* policy of the command line play no part in what follows).
TamperInit ==
    \E c \in {v \in ValidCalls : v.access_url = "u1"},
       policy \in {[threshold |-> 1, shares |-> 1]} :
        \E r \in {store_data([k \in {"collection"} |-> <<>>], c.asset_id,
                              c.data, c.access_url, c.owner_key,
                              c.owner_signer, c.consumer_key, c.rnd, c.now)} :
            /\ database = r.database
            /\ last = StoreLast(c, policy, r)
            /\ written = StoreWritten(<<>>, c, policy, r)
            /\ build = NoBuild
            /\ conc = NoConc

Tamper ==
    \E a \in DOMAIN Collection(database), field \in {"data", "capsule"},
       ch \in HexChars :
        LET doc == Collection(database)[a].did_document
        IN  \E pos \in 1..Len(doc.access[1][field]) :
              /\ doc = written[a].doc
              /\ doc.access[1][field][pos] # ch
              /\ database' =
                   Insert(database, a,
                          [did_document |->
                             [doc EXCEPT !.access[1][field][pos] = ch]])
              /\ last' = [NoCall EXCEPT !.op = "tamper", !.asset = a]
              /\ UNCHANGED <<written, build, conc>>

TamperNext == Tamper \/ Consume

SpecTamper == TamperInit /\ [][TamperNext]_vars

(***************************************************************************)
(* The builder called on its own, on every combination of well-formed and  *)
(* ill-formed arguments.                                                   *)
(***************************************************************************)
GoodCapsule == encrypt_data(Bytes(<<72>>), PublicKeyOf(OwnerSk), 1).val.capsule

GoodKFrag ==
    create_kfrags(OwnerSk, PublicKeyOf(ConsumerSk), Signer(OwnerSk),
                  1, 1, 1).val[1]

\* A key fragment that was not verified (umbral's KeyFrag).
RawKFrag == [GoodKFrag EXCEPT !.type = "KeyFrag"]

BuildArgs ==
    [data_asset_id : {"", "a1"}, access_url : {"", "u1"},
     owner_public_key : {PublicKeyOf(OwnerSk), OwnerSk, None},
     ciphertext : {Bytes(<<1, 2, 3>>), Bytes(<<>>), BadType, None},
     capsule : {GoodCapsule, Bytes(CapsuleBytes(GoodCapsule)), None},
     kfrags : {<<>>, <<GoodKFrag>>, <<RawKFrag>>, <<GoodKFrag, RawKFrag>>,
               <<GoodKFrag, GoodKFrag>>}]

BuildInit ==
    /\ database = [k \in {"collection"} |-> <<>>]
    /\ last = NoCall
    /\ written = <<>>
    /\ build \in [args : BuildArgs, res : {None}]
    /\ conc = NoConc

Build ==
    \E now \in 1..MaxTime :
        /\ build.res = None
        /\ build' = [build EXCEPT !.res =
                        create_did_document(build.args.data_asset_id,
                                            build.args.access_url,
                                            build.args.owner_public_key,
                                            build.args.ciphertext,
                                            build.args.capsule,
                                            build.args.kfrags, now)]
        /\ UNCHANGED <<database, last, written, conc>>

BuildNext == Build

SpecBuild == BuildInit /\ [][BuildNext]_vars

(***************************************************************************)
(* consume_data called by any caller: the database is a dict the caller    *)
(* hands over, so its record may have been put there by another writer     *)
(* than store_data (a share made under any policy, with entries of the     *)
(* kfrags list removed or unreadable), and the keys may be missing.        *)
(***************************************************************************)
\* The record of a share made by the wrappers and the builder under a
\* policy: what store_data builds, with the policy as a parameter.
SharedRecord(c, policy) ==
    LET owner_pk == PublicKeyOf(c.owner_key)
        enc == encrypt_data(c.data, owner_pk, c.rnd).val
        kfrags == create_kfrags(c.owner_key, c.consumer_key, c.owner_signer,
                                policy.threshold, policy.shares, c.rnd).val
    IN  create_did_document(c.asset_id, c.access_url, owner_pk,
                            enc.ciphertext, enc.capsule, kfrags, c.now).val

\* Entries of a kfrags list that do not parse: a text that is not hex, the
\* hex of a byte string of the wrong size, the hex of a fragment whose id
\* is not one.
UnparsableKFrags == {<<NonHexChar, 0>>, <<0, 1>>, <<0, 0, 0, 1>>}

\* The entries of seq at the indices in S, in order.
RECURSIVE Pick(_, _, _)
Pick(seq, S, i) ==
    IF i > Len(seq) THEN <<>>
    ELSE (IF i \in S THEN <<seq[i]>> ELSE <<>>) \o Pick(seq, S, i + 1)

InsertAt(seq, pos, x) ==
    SubSeq(seq, 1, pos) \o <<x>> \o SubSeq(seq, pos + 1, Len(seq))

\* The kfrags lists a writer can leave: any entries of the list removed,
\* and at most one unparsable entry put in.
KFragLists(kfrags) ==
    LET kept == {Pick(kfrags, S, 1) : S \in SUBSET (1..Len(kfrags))}
    IN  kept \cup UNION {{InsertAt(k, pos, x) :
                              pos \in 0..Len(k), x \in UnparsableKFrags} :
                          k \in kept}

\* A writer puts one record in the empty database.
Put ==
    \E c \in {v \in ValidCalls : /\ v.access_url = "u1"
                                 /\ v.consumer_key = PublicKeyOf(ConsumerSk)},
       policy \in Policies :
        \E doc \in {SharedRecord(c, policy)} :
            \E kfrags \in KFragLists(doc.access[1].kfrags) :
                \E put \in {[doc EXCEPT !.access[1].kfrags = kfrags]} :
                    /\ Collection(database) = <<>>
                    /\ database' = Insert(database, c.asset_id,
                                          [did_document |-> put])
                    /\ last' = [NoCall EXCEPT !.op = "put",
                                              !.asset = c.asset_id,
                                              !.policy = policy]
                    /\ written' = [a \in {c.asset_id} |->
                                      [data |-> c.data,
                                       accessUrl |-> c.access_url,
                                       consumer |-> c.consumer_key,
                                       policy |-> policy, doc |-> put,
                                       replaced |-> FALSE]]
                    /\ UNCHANGED <<build, conc>>

\* A call of consume_data with any keys, None included.
ConsumeAny ==
    ConsumeWith({ConsumerSk, OtherConsumerSk, None},
                {PublicKeyOf(OwnerSk), PublicKeyOf(OtherOwnerSk), None})

CallerNext == Put \/ ConsumeAny

SpecCaller == Init /\ [][CallerNext]_vars

(***************************************************************************)
(* store_data and consume_data called concurrently on one asset id, each   *)
(* call a sequence of steps: store_data builds its document, then assigns  *)
(* it to collection[asset_id]; consume_data tests the key, takes the       *)
(* did_doc object of the record, then reads its fields one by one.  A      *)
(* did_doc is an object: two callers holding the same object see each      *)
(* other's writes to it.                                                   *)
(***************************************************************************)
\* The calls of caller t: the two callers store different shares.
RaceCalls(t) ==
    {v \in ValidCalls :
        /\ v.rnd = t
        /\ v.now = 1
        /\ v.access_url = (IF t = 1 THEN "u1" ELSE "u2")
        /\ v.consumer_key = PublicKeyOf(IF t = 1 THEN ConsumerSk
                                        ELSE OtherConsumerSk)}

RaceAsset == "a1"

\* The database dict, from the objects and the references to them.
DatabaseOf(objs, ref) ==
    [k \in {"collection"} |->
        [a \in DOMAIN ref |-> [did_document |-> objs[ref[a]]]]]

\* (mutant) an assignment that updates in place the did_doc object an
\* asset id already refers to:
\* collection[asset_id]["did_document"].update(did_doc)
AssignInPlace(objs, ref, asset_id, did_doc) ==
    IF asset_id \in DOMAIN ref
    THEN [objs |-> [objs EXCEPT ![ref[asset_id]] = did_doc], ref |-> ref]
    ELSE [objs |-> Append(objs, did_doc),
          ref |-> [a \in (DOMAIN ref) \cup {asset_id} |->
                      IF a = asset_id THEN Len(objs) + 1 ELSE ref[a]]]

\* database.setdefault("collection", {})[asset_id] = document: the key
\* is made to refer to the new object; the object it referred to is left
\* as it is.
Assign(objs, ref, asset_id, did_doc) ==
    [objs |-> Append(objs, did_doc),
     ref |-> [a \in (DOMAIN ref) \cup {asset_id} |->
                 IF a = asset_id THEN Len(objs) + 1 ELSE ref[a]]]

\* store_data up to the document: the argument check, the try block and
\* document = {"did_document": did_doc}, on the caller's own variables.
StoreBuild(t) ==
    /\ conc.storer[t].pc = "idle"
    /\ conc.started < MaxStores
    /\ \E c \in RaceCalls(t) :
          \E r \in {store_data([k \in {"collection"} |-> <<>>], RaceAsset,
                                c.data, c.access_url, c.owner_key,
                                c.owner_signer, c.consumer_key, c.rnd,
                                c.now)} :
              /\ r.exc = "none"
              /\ conc' = [conc EXCEPT
                            !.started = @ + 1,
                            !.storer[t] =
                               [pc |-> "assign",
                                doc |-> Collection(r.database)[RaceAsset]
                                           .did_document]]
    /\ UNCHANGED <<database, last, written, build>>

\* The last statement of store_data: the assignment to the collection.
StoreAssign(t) ==
    /\ conc.storer[t].pc = "assign"
    /\ \E m \in {Assign(conc.objs, conc.ref, RaceAsset,
                         conc.storer[t].doc)} :
          /\ conc' = [conc EXCEPT
                        !.objs = m.objs, !.ref = m.ref,
                        !.built = @ \cup {conc.storer[t].doc},
                        !.storer[t] = [pc |-> "idle", doc |-> None]]
          /\ database' = DatabaseOf(m.objs, m.ref)
    /\ UNCHANGED <<last, written, build>>

\* consume_data: if data_asset_id not in collection.
ConsumeCheck ==
    /\ conc.consumer.pc = "idle"
    /\ IF RaceAsset \in DOMAIN conc.ref
       THEN /\ conc' = [conc EXCEPT !.consumer =
                           [pc |-> "lookup", held |-> 0, seen |-> <<>>]]
            /\ UNCHANGED last
       ELSE \E sk \in {ConsumerSk, OtherConsumerSk} :
              \E r \in {consume_data(database, RaceAsset, sk,
                                      PublicKeyOf(OwnerSk))} :
                /\ last' = [NoCall EXCEPT !.op = "consume",
                                          !.asset = RaceAsset,
                                          !.exc = r.exc, !.sk = sk,
                                          !.pk = PublicKeyOf(OwnerSk)]
                /\ UNCHANGED conc
    /\ UNCHANGED <<database, written, build>>

\* did_doc = collection[data_asset_id]["did_document"]
ConsumeLookup ==
    /\ conc.consumer.pc = "lookup"
    /\ conc' = [conc EXCEPT !.consumer.pc = "data",
                            !.consumer.held = conc.ref[RaceAsset]]
    /\ UNCHANGED <<database, last, written, build>>

\* The reads of access["data"], access["capsule"] and access["kfrags"],
\* in this order, from the object held.
ConsumeRead ==
    \E f \in {"data", "capsule", "kfrags"} :
        /\ conc.consumer.pc = f
        /\ conc' = [conc EXCEPT
                      !.consumer.pc = CASE f = "data" -> "capsule"
                                        [] f = "capsule" -> "kfrags"
                                        [] f = "kfrags" -> "accessUrl",
                      !.consumer.seen =
                         (f :> conc.objs[conc.consumer.held].access[1][f])
                            @@ @]
        /\ UNCHANGED <<database, last, written, build>>

\* The rest of consume_data, on the values read: decoding, re-encryption,
\* the gate, the decryption, and the read of access["accessUrl"] for the
\* return.
ConsumeFinish ==
    /\ conc.consumer.pc = "accessUrl"
    /\ \E sk \in {ConsumerSk, OtherConsumerSk} :
          \E p \in {ConsumePipeline(
                        [data |-> conc.consumer.seen["data"],
                         capsule |-> conc.consumer.seen["capsule"],
                         kfrags |-> conc.consumer.seen["kfrags"],
                         accessUrl |-> conc.objs[conc.consumer.held]
                                          .access[1].accessUrl],
                        sk, PublicKeyOf(OwnerSk))} :
              /\ conc' = [conc EXCEPT
                            !.consumer.pc = "idle",
                            !.consumer.seen =
                               IF p.res.ok
                               THEN ("accessUrl" :> p.res.val.accessUrl) @@ @
                               ELSE @]
              /\ last' = [NoCall EXCEPT
                            !.op = "consume", !.asset = RaceAsset,
                            !.exc = IF p.res.ok THEN "none"
                                    ELSE ConsumeExcept(p.res.exc),
                            !.calls = p.calls, !.ncfrags = p.ncfrags,
                            !.plaintext = IF p.res.ok
                                          THEN p.res.val.plaintext ELSE None,
                            !.accessUrl = IF p.res.ok
                                          THEN p.res.val.accessUrl ELSE "",
                            !.sk = sk, !.pk = PublicKeyOf(OwnerSk)]
    /\ UNCHANGED <<database, written, build>>

RaceNext ==
    \/ \E t \in Storers : StoreBuild(t)
    \/ \E t \in Storers : StoreAssign(t)
    \/ ConsumeCheck
    \/ ConsumeLookup
    \/ ConsumeRead
    \/ ConsumeFinish

SpecRace == Init /\ [][RaceNext]_vars

(***************************************************************************)
(* Claims.                                                                 *)
(***************************************************************************)
\* The record the store holds for asset id a.
Record(a) == Collection(database)[a].did_document

Stored(a) == a \in DOMAIN Collection(database)

\* The last call was a consume of a stored asset by the consumer the
\* record was delegated to, with the owner's public key.
DelegatedConsume ==
    /\ last.op = "consume"
    /\ last.asset \in DOMAIN written
    /\ PublicKeyOf(last.sk) = written[last.asset].consumer
    /\ last.pk = PublicKeyOf(OwnerSk)

\* C1 (round trip): a consume of a stored asset id with the delegated
\* consumer's secret key and the owner's public key returns exactly the
\* payload and the access URL given to the store call (every record is
\* made under the threshold=1, shares=1 policy).
C1_RoundTrip ==
    DelegatedConsume =>
        /\ last.exc = "none"
        /\ last.plaintext = written[last.asset].data
        /\ last.accessUrl = written[last.asset].accessUrl

C1_Witness ==
    /\ DelegatedConsume
    /\ last.exc = "none"
    /\ Len(last.plaintext.val) = MaxLen
    /\ last.accessUrl = "u2"

\* C2 (no access without delegation): a consume of a record stored for
\* one consumer, made with the secret key of a consumer never delegated
\* to, fails with PermissionError and returns no plaintext.
C2_NoAccessWithoutDelegation ==
    (/\ last.op = "consume"
     /\ last.asset \in DOMAIN written
     /\ PublicKeyOf(last.sk) # written[last.asset].consumer)
        => /\ last.exc = "PermissionError"
           /\ last.plaintext = None

\* C3 (threshold enforcement): for a share asked for with threshold=2 and
\* shares=3, a consumption with a single capsule fragment fails, and one
\* with two or more succeeds and gives back the payload.
C3_ThresholdEnforced ==
    (/\ DelegatedConsume
     /\ written[last.asset].policy =
           [threshold |-> PRE_THRESHOLD, shares |-> PRE_SHARES])
        => /\ last.ncfrags < PRE_THRESHOLD => last.exc # "none"
           /\ last.ncfrags >= PRE_THRESHOLD =>
                 /\ last.exc = "none"
                 /\ last.plaintext = written[last.asset].data

\* C4 (store honours the policy): the record of a store call made with
\* policy (threshold, shares) holds exactly `shares` key fragments.
C4_StoreHonoursPolicy ==
    \A a \in DOMAIN written :
        Stored(a) =>
            Len(Record(a).access[1].kfrags) = written[a].policy.shares

\* C5 (no partial commit): a store call that fails leaves the database as
\* it was, and the database changes only by a store call that returned
\* after the builder returned the record.
C5_NoPartialCommit ==
    [][/\ (last'.op = "store" /\ last'.exc # "none") => database' = database
       /\ database' # database =>
             /\ last'.op = "store"
             /\ last'.exc = "none"
             /\ last'.calls = <<"encrypt_data", "create_kfrags",
                                "create_did_document">>]_vars

C5_Witness ==
    /\ last.op = "store"
    /\ last.exc # "none"
    /\ last.calls # <<>>
    /\ Stored("a1")

\* C6 (store failure wrapping): every failure of a store call past the
\* argument check reaches the caller as DataStorageError raised from its
\* cause.
C6_StoreFailureWrapped ==
    (last.op = "store" /\ last.exc \notin {"none", "ValueError"})
        => /\ last.exc = "DataStorageError"
           /\ last.cause # "none"

\* C7 (missing asset): a consume of an asset id that is not in the store
\* fails with DataStorageError (not found) and makes no decoding,
\* re-encryption or decryption call.
C7_MissingAsset ==
    (last.op = "consume" /\ ~Stored(last.asset))
        => /\ last.exc = "DataStorageError"
           /\ last.calls = <<>>
           /\ last.plaintext = None

C7_Witness ==
    /\ last.op = "consume"
    /\ ~Stored(last.asset)
    /\ Stored("a1")
    /\ last.exc = "DataStorageError"

\* C8 (last write wins): after a store call replaced the record of an
\* asset id by one with another payload, the store holds for that id the
\* record built by the second call, and a consume returns the second
\* payload and the second access URL.
C8_LastWriteWins ==
    \A a \in DOMAIN written :
        written[a].replaced =>
            /\ Stored(a)
            /\ Record(a) = written[a].doc
            /\ (DelegatedConsume /\ last.asset = a) =>
                  /\ last.plaintext = written[a].data
                  /\ last.accessUrl = written[a].accessUrl

C8_Witness ==
    /\ DelegatedConsume
    /\ written[last.asset].replaced
    /\ last.exc = "none"
    /\ last.plaintext = written[last.asset].data

\* The record of asset id a differs from the record store_data wrote in
\* one character of the ciphertext or of the capsule, replaced by a
\* character that is no hex digit or by a digit of another value.
Corrupted(a) ==
    \E field \in {"data", "capsule"} :
        LET new == Record(a).access[1][field]
            old == written[a].doc.access[1][field]
        IN  \E i \in 1..Len(old) :
              /\ new[i] # old[i]
              /\ ~IsHexDigit(new[i]) \/ HexVal(new[i]) # HexVal(old[i])

\* C9 (tamper detection): after one hex character of the stored capsule
\* or ciphertext was changed to another hex digit or to a character that
\* is no hex digit, a consume of that record, with any keys, fails with
\* DecryptionError and returns no plaintext.
C9_TamperDetected ==
    (/\ last.op = "consume"
     /\ Stored(last.asset)
     /\ Corrupted(last.asset))
        => /\ last.exc = "DecryptionError"
           /\ last.plaintext = None

\* The corruption left valid hex and a capsule that parses, and was found
\* by the decryption itself, called with the right keys.
C9_Witness ==
    /\ DelegatedConsume
    /\ Corrupted(last.asset)
    /\ Record(last.asset).access[1].capsule
          = written[last.asset].doc.access[1].capsule
    /\ last.exc = "DecryptionError"
    /\ last.calls[Len(last.calls)] = "decrypt_reencrypted_data"

\* The preconditions of the builder, in the order of the specification.
Violated(args) ==
    <<args.data_asset_id = "",
      args.access_url = "",
      args.owner_public_key.type # "PublicKey",
      args.ciphertext.type # "bytes" \/ args.ciphertext = Bytes(<<>>),
      args.capsule.type # "Capsule",
      \/ args.kfrags = <<>>
      \/ \E i \in 1..Len(args.kfrags) :
            args.kfrags[i].type # "VerifiedKeyFrag">>

BuildErrors ==
    <<[exc |-> "ValueError", msg |-> "Data asset ID is missing."],
      [exc |-> "ValueError", msg |-> "Access URL is missing."],
      [exc |-> "ValueError", msg |-> "Invalid owner public key."],
      [exc |-> "ValueError", msg |-> "Invalid ciphertext."],
      [exc |-> "ValueError", msg |-> "Invalid capsule."],
      [exc |-> "InvalidKeyFrag", msg |-> "Invalid key fragments."]>>

\* C10 (builder validation order): the builder reports the error of the
\* first violated precondition, in the order asset id, access URL, owner
\* public key, ciphertext, capsule, key fragments, and returns a record
\* only when no precondition is violated.
C10_BuilderOrder ==
    build.res # None =>
        LET v == Violated(build.args)
        IN  /\ \A i \in 1..6 :
                  (v[i] /\ \A j \in 1..(i - 1) : ~v[j]) =>
                      /\ ~build.res.ok
                      /\ build.res.exc = BuildErrors[i].exc
                      /\ build.res.msg = BuildErrors[i].msg
            /\ build.res.ok <=> \A i \in 1..6 : ~v[i]
            /\ build.res.ok =>
                  /\ build.res.val.id = "did:op:" \o build.args.data_asset_id
                  /\ build.res.val.access[1].accessUrl = build.args.access_url

C10_Witness ==
    /\ build.res # None
    /\ ~build.res.ok
    /\ build.res.msg = "Invalid ciphertext."
    /\ Violated(build.args)[5]
    /\ Violated(build.args)[6]

\* C11 (store argument check): a store call in which a required argument
\* (asset id, payload, access URL, owner key, signer, consumer public key)
\* is empty or None is rejected with the ValueError of the argument check,
\* not with DataStorageError, before any encryption, fragment generation
\* or builder call, and the ValueError of the argument check is raised by
\* no other call.
C11_ArgumentCheck ==
    last.op = "store" =>
        /\ last.missing # "none" =>
              /\ last.exc = "ValueError"
              /\ last.cause = "none"
              /\ last.calls = <<>>
        /\ last.missing = "none" => last.exc # "ValueError"

\* The signer alone is missing, with a record already in the store.
C11_Witness ==
    /\ last.op = "store"
    /\ last.missing = "owner_signer"
    /\ last.asset = "a1"
    /\ last.exc = "ValueError"
    /\ last.calls = <<>>
    /\ Stored("a1")

\* The byte string sub occurs in the byte string b.
OccursIn(sub, b) ==
    \E i \in 0..(Len(b) - Len(sub)) : SubSeq(b, i + 1, i + Len(sub)) = sub

\* The hex texts of a record: ciphertext, capsule, key fragments and
\* public key (its other fields are the asset id, the access URL, the
\* time and constants).
RecordTexts(doc) ==
    {doc.access[1].data, doc.access[1].capsule, doc.encryption.publicKey}
        \cup {doc.access[1].kfrags[i] : i \in 1..Len(doc.access[1].kfrags)}

\* The secret keys of the parties.
SecretKeys == {OwnerSk, ConsumerSk, OtherConsumerSk}

\* C12 (secret keys are never serialized): in every state, no hex text of
\* a stored record holds the bytes of the owner's or of a consumer's
\* secret key, and the key written in the record is the owner's public
\* key.
C12_NoSecretKeyStored ==
    \A a \in DOMAIN Collection(database) :
        /\ \A t \in RecordTexts(Record(a)), sk \in SecretKeys :
              ~OccursIn(SecretKeyBytes(sk), FromHex(t))
        /\ Record(a).encryption.publicKey
              = ToHex(PublicKeyBytes(PublicKeyOf(OwnerSk)))
        /\ Record(a).encryption.type = "PyUmbral"

\* A record replaced by a second store call, then consumed with the
\* consumer's secret key.
C12_Witness ==
    /\ DelegatedConsume
    /\ last.exc = "none"
    /\ written[last.asset].replaced
    /\ Record(last.asset).encryption.publicKey
          = ToHex(PublicKeyBytes(PublicKeyOf(OwnerSk)))
    /\ Len(Record(last.asset).access[1].kfrags) >= 1

\* C13 (consume failure taxonomy): every consume call that does not
\* return ends in DataStorageError (not found), PermissionError or
\* DecryptionError, and every failure past the lookup other than the
\* permission gate is a DecryptionError raised from its cause.
C13_ConsumeTaxonomy ==
    (last.op = "consume" /\ last.exc # "none") =>
        /\ last.exc \in {"DataStorageError", "PermissionError",
                          "DecryptionError"}
        /\ (last.calls # <<>> /\ last.exc # "PermissionError") =>
              /\ last.exc = "DecryptionError"
              /\ last.cause # "none"

\* The ciphertext and the capsule of the record of asset id a decode.
Decodes(a) ==
    /\ FromHexOk(Record(a).access[1].data)
    /\ FromHexOk(Record(a).access[1].capsule)
    /\ CapsuleFromBytesOk(FromHex(Record(a).access[1].capsule))

\* The entries of the kfrags list of the record of a that parse.
Parsable(a) ==
    {i \in 1..Len(Record(a).access[1].kfrags) :
        KFragParses(Record(a).access[1].kfrags[i])}

Unparsable(a) == (1..Len(Record(a).access[1].kfrags)) \ Parsable(a)

\* C14 (permission gate): a consume that finds a record whose ciphertext
\* and capsule decode and whose kfrags list gives no capsule fragment
\* fails with PermissionError, not DecryptionError, and does not call the
\* decryption.
C14_PermissionGate ==
    (/\ last.op = "consume"
     /\ Stored(last.asset)
     /\ Decodes(last.asset)
     /\ Record(last.asset).access[1].kfrags = <<>>)
        => /\ last.exc = "PermissionError"
           /\ last.cause = "none"
           /\ last.ncfrags = 0
           /\ \A i \in 1..Len(last.calls) :
                 last.calls[i] # "decrypt_reencrypted_data"

\* The delegated consumer, with the owner's public key, on a 2-of-3 share
\* whose kfrags were all removed.
C14_Witness ==
    /\ last.op = "consume"
    /\ Stored(last.asset)
    /\ Record(last.asset).access[1].kfrags = <<>>
    /\ written[last.asset].policy.shares = PRE_SHARES
    /\ last.sk = ConsumerSk
    /\ last.pk = PublicKeyOf(OwnerSk)
    /\ last.exc = "PermissionError"
    /\ last.calls = <<"fromhex", "fromhex", "Capsule.from_bytes">>

\* C15 (unparsable fragments are skipped): a consume by the delegated
\* consumer of a record with one unparsable kfrag entry and at least
\* threshold parsable ones succeeds and returns the payload.
C15_UnparsableSkipped ==
    (/\ last.op = "consume"
     /\ last.sk # None
     /\ DelegatedConsume
     /\ Stored(last.asset)
     /\ Decodes(last.asset)
     /\ Cardinality(Unparsable(last.asset)) = 1
     /\ Cardinality(Parsable(last.asset))
           >= written[last.asset].policy.threshold)
        => /\ last.exc = "none"
           /\ last.plaintext = written[last.asset].data

\* C16 (stored-record validity): in every state reached from the empty
\* store by store and consume calls, every record is keyed by a non-empty
\* asset id, carries the id built from that asset id, has a non-empty
\* ciphertext, a capsule that parses and a non-empty kfrags list whose
\* entries all parse as verified fragments.
C16_RecordValid ==
    \A a \in DOMAIN Collection(database) :
        /\ a # ""
        /\ Record(a).id = "did:op:" \o a
        /\ Decodes(a)
        /\ FromHex(Record(a).access[1].data) # <<>>
        /\ Record(a).access[1].kfrags # <<>>
        /\ Unparsable(a) = {}

\* A record written, replaced, and followed by a store call with an empty
\* asset id.
C16_Witness ==
    /\ Stored("a1")
    /\ written["a1"].replaced
    /\ last.op = "store"
    /\ last.asset = ""
    /\ last.exc # "none"

\* C17 (consume only reads): a consume call, returning or failing, leaves
\* the database as it was, and the record of an asset id changes or
\* disappears only by a store call to that asset id that returned.
C17_ConsumeOnlyReads ==
    [][/\ last'.op = "consume" => database' = database
       /\ \A a \in DOMAIN Collection(database) :
             (a \notin DOMAIN Collection(database')
                \/ Collection(database')[a] # Collection(database)[a])
                => /\ last'.op = "store"
                   /\ last'.asset = a
                   /\ last'.exc = "none"]_vars

\* A consume that failed on a record that replaced another, the record
\* still as the second store call wrote it.
C17_Witness ==
    /\ last.op = "consume"
    /\ Stored(last.asset)
    /\ last.exc = "DecryptionError"
    /\ Record(last.asset) = written[last.asset].doc
    /\ written[last.asset].replaced

\* C18 (no torn record): under any interleaving of the steps of store
\* calls and of a consume on the same asset id, the record the key refers
\* to is the complete record built by one store call, and the fields the
\* consume has read so far (ciphertext, capsule, kfrags, access URL) are
\* all those of the record built by one store call.
C18_NoTornRecord ==
    /\ \A a \in DOMAIN Collection(database) :
          /\ Record(a) \in conc.built
          /\ Decodes(a)
          /\ Record(a).access[1].kfrags # <<>>
    /\ DOMAIN conc.consumer.seen # {} =>
          \E d \in conc.built :
              \A f \in DOMAIN conc.consumer.seen :
                  conc.consumer.seen[f] = d.access[1][f]

\* A consume that returned after reading all four fields, while a second
\* store call replaced the record it was reading.
C18_Witness ==
    /\ conc.consumer.pc = "idle"
    /\ DOMAIN conc.consumer.seen = {"data", "capsule", "kfrags", "accessUrl"}
    /\ last.exc = "none"
    /\ Cardinality(conc.built) = 2
    /\ conc.consumer.seen["data"] # Record(RaceAsset).access[1].data
    /\ conc.consumer.seen["accessUrl"] # Record(RaceAsset).access[1].accessUrl

=============================================================================
